---- MODULE Spec2Model ----
(***************************************************************************)
(* Retrieval pipeline of the RAG system: PDFProcessor (pdf_processor.py), *)
(* VectorStore (vector_store.py), Retriever (retriever.py) and LLMChain    *)
(* (llm_chain.py), as main.py drives them.                                 *)
(*                                                                         *)
(* Spec is the program: runs of main that index a file, with or without a  *)
(* reset, and answer queries.  SpecChunker applies _create_chunks and      *)
(* load_and_split to lists of pages.  SpecConcurrent lets two callers of   *)
(* add_documents and a reset run at the same time on one collection.       *)
(* SpecAnswer applies generate_answer to retrieval results on a chain that *)
(* keeps its session totals.  SpecIdentity applies _compute_doc_id to      *)
(* pairs of chunks.  SpecSetup runs setup_rag_pipeline on a file over a    *)
(* persisted index.                                                        *)
(*                                                                         *)
(* Conventions of the model                                                *)
(*  - a Python str is a sequence of one-character strings;                 *)
(*  - a float score or threshold is the integer number of hundredths       *)
(*    (0.3 is 30, 0.90 is 90); only comparisons are made on them;          *)
(*  - hashlib.md5(...).hexdigest() is taken to be injective, so a document *)
(*    id is the string that is fed to the hash;                            *)
(*  - metadata "page" is a natural number, NoPage standing for a document  *)
(*    whose metadata has no "page" key and UnknownPage for one whose page  *)
(*    is the string "unknown".                                             *)
(***************************************************************************)
EXTENDS Integers, Sequences, FiniteSets, TLC

(***************************************************************************)
(* Bounds of the model                                                     *)
(***************************************************************************)
MaxDocs == 2        \* longest list handed to add_documents
MaxBatch == 2       \* largest batch_size handed to add_documents
MaxStore == 3       \* largest number of entries the collection may hold
MaxK == 3           \* largest top_k of a Retriever
MaxPages == 2       \* most pages handed to _create_chunks
MaxSplits == 2      \* most chunks the splitter answers for a page
MaxTokens == 2      \* most tokens of a prompt and of a completion
MaxAnswers == 2     \* most generate_answer calls of a session
MaxNameLen == 2     \* longest source name and text handed to _compute_doc_id

(***************************************************************************)
(* Program constants                                                       *)
(***************************************************************************)
MIN_SIMILARITY == 30
SIMILARITY_THRESHOLD == 90
NoPage == 0
UnknownPage == -1
MinChunkLength == 30
DefaultBatchSize == 32
NoFail == -1

(***************************************************************************)
(* Strings                                                                 *)
(***************************************************************************)
Whitespace == {" ", "\n", "\t"}

Digits == <<"0", "1", "2", "3", "4", "5", "6", "7", "8", "9">>

\* str.lower() on one character (the upper-case letters of the corpus)
LowerChar(c) ==
    CASE c = "A" -> "a"
      [] c = "Q" -> "q"
      [] c = "S" -> "s"
      [] c = "T" -> "t"
      [] OTHER -> c

\* str.lower()
Lower(s) == [i \in 1..Len(s) |-> LowerChar(s[i])]

\* str.split(): the maximal runs of non-whitespace characters, in order
RECURSIVE SplitFrom(_, _, _, _)
SplitFrom(s, i, cur, acc) ==
    IF i > Len(s)
    THEN IF cur = <<>> THEN acc ELSE Append(acc, cur)
    ELSE IF s[i] \in Whitespace
         THEN SplitFrom(s, i + 1, <<>>, IF cur = <<>> THEN acc ELSE Append(acc, cur))
         ELSE SplitFrom(s, i + 1, Append(cur, s[i]), acc)

Split(s) == SplitFrom(s, 1, <<>>, <<>>)

\* str(n) of a non-negative int
RECURSIVE Str(_)
Str(n) == IF n < 10 THEN <<Digits[n + 1]>> ELSE Str(n \div 10) \o <<Digits[(n % 10) + 1]>>

\* str.isdigit()
IsDigit(s) == s # <<>> /\ \A i \in 1..Len(s) : \E d \in 1..10 : Digits[d] = s[i]

DigitVal(c) == (CHOOSE d \in 1..10 : Digits[d] = c) - 1

\* int(s) of a decimal string
RECURSIVE ParseInt(_)
ParseInt(s) ==
    IF s = <<>> THEN 0
    ELSE 10 * ParseInt(SubSeq(s, 1, Len(s) - 1)) + DigitVal(s[Len(s)])

\* sep.join(parts)
RECURSIVE Join(_, _)
Join(sep, parts) ==
    IF parts = <<>> THEN <<>>
    ELSE IF Len(parts) = 1 THEN parts[1]
    ELSE parts[1] \o sep \o Join(sep, Tail(parts))

\* needle in haystack
Contains(hay, needle) ==
    \E i \in 0..(Len(hay) - Len(needle)) : SubSeq(hay, i + 1, i + Len(needle)) = needle

SeqRange(s) == {s[i] : i \in 1..Len(s)}

\* the sequences over S of length at most n
RECURSIVE SeqsUpTo(_, _)
SeqsUpTo(S, n) ==
    IF n = 0 THEN {<<>>}
    ELSE LET shorter == SeqsUpTo(S, n - 1)
         IN  shorter \cup {Append(s, x) : s \in {t \in shorter : Len(t) = n - 1}, x \in S}

(***************************************************************************)
(* Documents: langchain Document(page_content, metadata)                   *)
(***************************************************************************)
Doc(text, src, pg, idx) ==
    [page_content |-> text, source |-> src, page |-> pg, chunk_index |-> idx,
     chunk_length |-> Len(text)]

\* f"{page}" of doc.metadata.get("page", "?")
PageStr(doc) ==
    IF doc.page = NoPage THEN <<"?">>
    ELSE IF doc.page = UnknownPage THEN <<"u","n","k","n","o","w","n">>
    ELSE Str(doc.page)

SrcD == <<"d">>
SrcE == <<"e">>

TCatMat == <<"T","h","e"," ","c","a","t"," ","s","a","t"," ","o","n"," ","t","h","e"," ","m","a","t",".">>
TCatRug == <<"T","h","e"," ","c","a","t"," ","s","a","t"," ","o","n"," ","t","h","e"," ","r","u","g",".">>
TQuantum == <<"Q","u","a","n","t","u","m"," ","m","e","c","h","a","n","i","c","s"," ","i","s"," ","h","a","r","d",".">>
\* three ten-word texts: Ten and Nine share 9 of 10 words, Nine and Swap
\* share 9 of 10, Ten and Swap share 9 of 11
TTen == <<"a"," ","b"," ","c"," ","d"," ","e"," ","f"," ","g"," ","h"," ","i"," ","j">>
TNine == <<"A"," ","b"," "," ","c","\n","d"," ","e"," ","f"," ","g"," ","h"," ","i">>
TSwap == <<"a"," ","b"," ","c"," ","d"," ","e"," ","f"," ","g"," ","h"," ","i"," ","k">>

\* VectorStore and Retriever take any Document and never look at the
\* length of its text, so the texts are kept shorter than the chunks the
\* PDFProcessor lets through.
CatMat == Doc(TCatMat, SrcD, 1, 0)
CatRug == Doc(TCatRug, SrcD, 1, 1)
Quantum == Doc(TQuantum, SrcD, 2, 2)
\* the text of CatMat from the same source, met again on another page
CatMatAgain == Doc(TCatMat, SrcD, 10, 3)
\* a second source: a chunk whose page is "unknown", one on page 1 like
\* CatMat, one without page metadata
Ten == Doc(TTen, SrcE, UnknownPage, 0)
Nine == Doc(TNine, SrcE, 1, 1)
Swap == Doc(TSwap, SrcE, NoPage, 2)

\* chunks that add_documents is handed in every combination
Chunks == {CatMat, CatMatAgain, Nine}

\* the chunk lists of two whole documents
FileD == <<CatMat, CatRug, Quantum>>
FileE == <<Ten, Nine, Swap>>
Files == {FileD, FileE}

\* every document of the model
Corpus == Chunks \cup {f[i] : f \in Files, i \in 1..3}

\* the lists of chunks handed to add_documents
DocumentLists == SeqsUpTo(Chunks, MaxDocs) \cup Files

Queries == {<<"c","a","t","?">>, <<"q">>}

\* relevance scores the backend may report, in hundredths
Scores == {20, 30, 60}

\* min_similarity values a Retriever is built with
MinSimilarities == {MIN_SIMILARITY, 60}

\* what the backend can do wrong during a query: nothing, the count of the
\* collection raises, the search raises a RuntimeError, the search raises
\* an exception of another class
Faults == {"count", "search_runtime", "search_other"}

(***************************************************************************)
(* State                                                                   *)
(***************************************************************************)
VARIABLES
    store,           \* the Chroma collection: set of [id, doc]
    lastOp,          \* "init", "reset", "add", "retrieve" or "prompt"
    lastAdd,         \* what the last add_documents call did
    lastRet,         \* what the last retrieve call did
    pdf,             \* the pages _extract_pages returned and how they split
    chunked,         \* what the last call of the PDFProcessor did
    conc,            \* add_documents calls and a reset that run at once
    llm,             \* the LLMChain and what its last generate_answer did
    ident,           \* two chunks and the strings _compute_doc_id hashes for them
    setup            \* what the last run of main did in setup_rag_pipeline

mainVars == <<store, lastOp, lastAdd, lastRet>>
chunkVars == <<pdf, chunked>>
concVars == <<conc>>
llmVars == <<llm>>
identVars == <<ident>>
setupVars == <<setup>>
vars == <<store, lastOp, lastAdd, lastRet, pdf, chunked, conc, llm, ident, setup>>

(***************************************************************************)
(* VectorStore                                                             *)
(***************************************************************************)
\* compute_doc_id with the page taken into the hashed string
compute_doc_id_WithPage(doc) ==
    doc.source \o <<"_", "_">> \o PageStr(doc) \o <<"_", "_">> \o doc.page_content

\* _compute_doc_id: the string "<source>__<page_content>" that is hashed
compute_doc_id(doc) == doc.source \o <<"_", "_">> \o doc.page_content

\* _get_existing_ids
get_existing_ids(st) == {e.id : e \in st}

\* self.db._collection.count()
Count(st) == Cardinality(st)

\* get_document_count
get_document_count(st, countFails) == IF countFails THEN 0 ELSE Count(st)

\* is_empty that takes a failing count for "not empty"
is_empty_FailOpen(st, countFails) == IF countFails THEN FALSE ELSE Count(st) < 0

\* is_empty
is_empty(st, countFails) == IF countFails THEN TRUE ELSE Count(st) = 0

\* Chroma.add_documents(documents, ids): one upsert of the collection.  The
\* collection rejects a call whose ids are not pairwise distinct
\* (DuplicateIDError) and stores nothing of it; otherwise every id is
\* written, replacing an entry that has the same id.
HasDuplicateIds(ids) == \E i, j \in 1..Len(ids) : i # j /\ ids[i] = ids[j]

db_add_documents(st, docs, ids) ==
    {e \in st : e.id \notin SeqRange(ids)}
        \cup {[id |-> ids[i], doc |-> docs[i]] : i \in 1..Len(ids)}

\* the batch loop of add_documents, from offset i (0-based) on; fail_at is
\* the number of the batch (from 0) whose embedding or upsert fails in the
\* backend, NoFail if none does
RECURSIVE AddBatches(_, _, _, _, _, _, _)
AddBatches(st, new_docs, new_ids, batch_size, i, added_count, fail_at) ==
    IF i >= Len(new_docs)
    THEN [store |-> st, added_count |-> added_count, raised |-> FALSE, faulted |-> FALSE]
    ELSE LET hi == IF i + batch_size > Len(new_docs) THEN Len(new_docs) ELSE i + batch_size
             batch_docs == SubSeq(new_docs, i + 1, hi)
             batch_ids == SubSeq(new_ids, i + 1, hi)
         IN  IF i = fail_at * batch_size
             THEN [store |-> st, added_count |-> added_count, raised |-> TRUE,
                   faulted |-> TRUE]
             ELSE IF HasDuplicateIds(batch_ids)
             THEN [store |-> st, added_count |-> added_count, raised |-> TRUE,
                   faulted |-> FALSE]
             ELSE AddBatches(db_add_documents(st, batch_docs, batch_ids), new_docs, new_ids,
                             batch_size, i + batch_size, added_count + Len(batch_docs),
                             fail_at)

\* the filter loop letting every document through
NewDocs_Unfiltered(st, documents) == documents

\* the documents of the input whose id is not stored yet
NewDocs(st, documents) ==
    SelectSeq(documents, LAMBDA d : compute_doc_id(d) \notin get_existing_ids(st))

\* add_documents(documents, batch_size): the store after the call, the
\* returned count and whether the call raised instead of returning
add_documents(st, documents, batch_size, fail_at) ==
    LET new_docs == NewDocs(st, documents)
        new_ids == [i \in 1..Len(new_docs) |-> compute_doc_id(new_docs[i])]
    IN  IF new_docs = <<>>
        THEN [store |-> st, added_count |-> 0, raised |-> FALSE, faulted |-> FALSE]
        ELSE AddBatches(st, new_docs, new_ids, batch_size, 0, 0, fail_at)

NoAdd == [documents |-> <<>>, batch_size |-> 0, fail_at |-> NoFail,
          before |-> 0, after |-> 0, ret |-> 0, raised |-> FALSE,
          faulted |-> FALSE, repeat |-> FALSE, prevAfter |-> 0,
          after_reset |-> FALSE, store_before |-> {}]

\* an ordering of the entries of st: the sequences of n distinct entries
RECURSIVE Arrangements(_, _)
Arrangements(S, n) ==
    IF n = 0 THEN {<<>>}
    ELSE {Append(s, x) : s \in Arrangements(S, n - 1), x \in S} 

Distinct(s) == \A i, j \in 1..Len(s) : i # j => s[i] # s[j]

Descending(scores) == \A i \in 1..(Len(scores) - 1) : scores[i] >= scores[i + 1]

Min(a, b) == IF a < b THEN a ELSE b

\* self.db.similarity_search_with_relevance_scores(query, k): the
\* min(k, count) stored documents nearest to the query, nearest first, each
\* with its relevance score.  Which documents are nearest and what they
\* score is the embedding's business: every choice is possible.
BackendHits(st, k) ==
    LET n == Min(k, Cardinality(st))
    IN  {[i \in 1..n |-> [doc |-> es[i].doc, score |-> sc[i]]] :
            es \in {a \in Arrangements(st, n) : Distinct(a)},
            sc \in {c \in [1..n -> Scores] : Descending(c)}}

\* the list comprehension with a strict comparison
Filtered_Strict(results, min_sim) == SelectSeq(results, LAMBDA r : r.score > min_sim)

\* the list built by inserting each kept pair at the front
Filtered_Front(results, min_sim) ==
    LET kept == SelectSeq(results, LAMBDA r : r.score >= min_sim)
    IN  [i \in 1..Len(kept) |-> kept[Len(kept) + 1 - i]]

\* the list comprehension of similarity_search
Filtered(results, min_sim) == SelectSeq(results, LAMBDA r : r.score >= min_sim)

\* similarity_search(query, k, min_similarity): what is raised ("none",
\* "RuntimeError" or "Other"), whether the backend search was called, and
\* the returned list
similarity_search(st, k, min_sim, fault, hits) ==
    IF is_empty(st, fault = "count")
    THEN [raised |-> "RuntimeError", searched |-> FALSE, results |-> <<>>]
    ELSE IF fault = "search_runtime"
    THEN [raised |-> "RuntimeError", searched |-> TRUE, results |-> <<>>]
    ELSE IF fault = "search_other"
    THEN [raised |-> "Other", searched |-> TRUE, results |-> <<>>]
    ELSE [raised |-> "none", searched |-> TRUE, results |-> Filtered(hits, min_sim)]

\* a search that takes the entries it answers out of the collection
after_search_Consuming(st, results) ==
    {e \in st : \A i \in 1..Len(results) : results[i].doc # e.doc}

\* the collection after similarity_search: the call reads the count and
\* asks the backend for the nearest entries, and writes nothing
after_search(st, results) == st

(***************************************************************************)
(* Retriever                                                               *)
(***************************************************************************)
\* a RetrievalResult built without its query
RetrievalResult_NoQuery(query) ==
    [query |-> <<>>, documents |-> <<>>, scores |-> <<>>, context |-> <<>>,
     sources |-> <<>>]

\* RetrievalResult(query=query)
RetrievalResult(query) ==
    [query |-> query, documents |-> <<>>, scores |-> <<>>, context |-> <<>>,
     sources |-> <<>>]

NoRet == [query |-> <<>>, top_k |-> 0, min_similarity |-> 0, fault |-> "none",
          count |-> 0, hits |-> <<>>, searched |-> FALSE, searchRaised |-> "none",
          found |-> <<>>, raised |-> FALSE, result |-> RetrievalResult(<<>>)]

\* RetrievalResult.found_results
found_results(result) == Len(result.documents) > 0

\* text.lower().split(), tabulated over the texts of the corpus
\* RetrievalResult.top_score that reads the last score
top_score_Last(result) ==
    IF result.scores = <<>> THEN 0 ELSE result.scores[Len(result.scores)]

\* RetrievalResult.top_score: max(self.scores) if self.scores else 0.0
top_score(result) ==
    IF result.scores = <<>> THEN 0
    ELSE CHOOSE m \in SeqRange(result.scores) :
             \A x \in SeqRange(result.scores) : m >= x

LowerSplit == [text \in {d.page_content : d \in Corpus} |-> Split(Lower(text))]

\* set(text.lower().split())
Words(text) == SeqRange(LowerSplit[text])

\* _jaccard_similarity: the quotient len(intersection) / len(union) as the
\* pair of its numerator and denominator; 0.0 is 0 / 1
jaccard_similarity(text1, text2) ==
    LET words1 == Words(text1)
        words2 == Words(text2)
    IN  IF words1 = {} \/ words2 = {}
        THEN [num |-> 0, den |-> 1]
        ELSE [num |-> Cardinality(words1 \cap words2),
              den |-> Cardinality(words1 \cup words2)]

\* text_similarity >= similarity_threshold, the threshold in hundredths
AtLeast(q, threshold) == 100 * q.num >= threshold * q.den

\* the inner loop with a strict comparison against the threshold
is_duplicate_Strict(doc, unique_results, similarity_threshold) ==
    \E i \in 1..Len(unique_results) :
        LET q == jaccard_similarity(doc.page_content, unique_results[i].doc.page_content)
        IN  100 * q.num > similarity_threshold * q.den

\* the inner loop comparing with the last kept result only
is_duplicate_LastOnly(doc, unique_results, similarity_threshold) ==
    AtLeast(jaccard_similarity(doc.page_content,
                               unique_results[Len(unique_results)].doc.page_content),
            similarity_threshold)

\* the inner loop with a threshold of two thirds of the given one
is_duplicate_Loose(doc, unique_results, similarity_threshold) ==
    \E i \in 1..Len(unique_results) :
        LET q == jaccard_similarity(doc.page_content, unique_results[i].doc.page_content)
        IN  3 * 100 * q.num >= 2 * similarity_threshold * q.den

\* the inner loop of _deduplicate: is doc a duplicate of a kept result
is_duplicate(doc, unique_results, similarity_threshold) ==
    \E i \in 1..Len(unique_results) :
        AtLeast(jaccard_similarity(doc.page_content, unique_results[i].doc.page_content),
                similarity_threshold)

\* the outer loop of _deduplicate over results[1:]
RECURSIVE DedupLoop(_, _, _)
DedupLoop(rest, unique_results, similarity_threshold) ==
    IF rest = <<>> THEN unique_results
    ELSE DedupLoop(Tail(rest),
                   IF is_duplicate(Head(rest).doc, unique_results, similarity_threshold)
                   THEN unique_results
                   ELSE Append(unique_results, Head(rest)),
                   similarity_threshold)

\* _deduplicate
deduplicate(results, similarity_threshold) ==
    IF Len(results) <= 1 THEN results
    ELSE DedupLoop(Tail(results), <<Head(results)>>, similarity_threshold)

SAbschnitt == <<"[","A","b","s","c","h","n","i","t","t"," ">>
SQuelle == <<"]"," ","(","Q","u","e","l","l","e",":"," ">>
SSeite == <<"S","e","i","t","e"," ">>
SSectionSep == <<"\n","\n","-","-","-","\n","\n">>

\* the f-string of _build_context for the i-th result
Section(i, doc) ==
    SAbschnitt \o Str(i) \o SQuelle \o doc.source \o <<",", " ">> \o SSeite
        \o PageStr(doc) \o <<")", "\n">> \o doc.page_content

\* _build_context numbering the sections from 0
build_context_FromZero(results) ==
    Join(SSectionSep, [i \in 1..Len(results) |-> Section(i - 1, results[i].doc)])

\* _build_context
build_context(results) ==
    Join(SSectionSep, [i \in 1..Len(results) |-> Section(i, results[i].doc)])

\* the key of the sorted() call of _extract_sources
SourceSortKey(s) ==
    LET last == Split(s)[Len(Split(s))]
    IN  IF IsDigit(last) THEN ParseInt(last) ELSE 0

\* sorted(seq, key=Key): stable insertion sort
RECURSIVE InsertSorted(_, _)
InsertSorted(sorted, x) ==
    IF sorted = <<>> THEN <<x>>
    ELSE IF SourceSortKey(sorted[Len(sorted)]) <= SourceSortKey(x)
         THEN Append(sorted, x)
         ELSE Append(InsertSorted(SubSeq(sorted, 1, Len(sorted) - 1), x), sorted[Len(sorted)])

RECURSIVE SortedSources(_, _)
SortedSources(seq, acc) ==
    IF seq = <<>> THEN acc ELSE SortedSources(Tail(seq), InsertSorted(acc, Head(seq)))

\* the key f"{source}_p{page}" of _extract_sources
SourceKey(doc) == doc.source \o <<"_", "p">> \o PageStr(doc)

\* the loop of _extract_sources
RECURSIVE SourcesLoop(_, _, _)
SourcesLoop(rest, seen, sources) ==
    IF rest = <<>> THEN sources
    ELSE LET doc == Head(rest).doc
         IN  IF SourceKey(doc) \in seen
             THEN SourcesLoop(Tail(rest), seen, sources)
             ELSE SourcesLoop(Tail(rest), seen \cup {SourceKey(doc)},
                              Append(sources, SSeite \o PageStr(doc)))

\* _extract_sources returning the labels in the order it met them
extract_sources_Unsorted(results) == SourcesLoop(results, {}, <<>>)

\* _extract_sources
extract_sources(results) == SortedSources(SourcesLoop(results, {}, <<>>), <<>>)

\* retrieve that stores the score of every raw result
retrieve_RawScores(st, query, k, min_sim, fault, hits) ==
    LET result == RetrievalResult(query)
        found == similarity_search(st, k, min_sim, fault, hits)
        raw_results == found.results
        deduplicated == deduplicate(raw_results, SIMILARITY_THRESHOLD)
    IN  IF found.raised = "RuntimeError" THEN [raised |-> FALSE, result |-> result]
        ELSE IF found.raised # "none" THEN [raised |-> TRUE, result |-> result]
        ELSE IF raw_results = <<>> THEN [raised |-> FALSE, result |-> result]
        ELSE [raised |-> FALSE,
              result |-> [query |-> query,
                          documents |-> [i \in 1..Len(deduplicated) |-> deduplicated[i].doc],
                          scores |-> [i \in 1..Len(raw_results) |-> raw_results[i].score],
                          context |-> build_context(deduplicated),
                          sources |-> extract_sources(deduplicated)]]

\* retrieve(query): whether an exception leaves the call, and the result
retrieve(st, query, k, min_sim, fault, hits) ==
    LET result == RetrievalResult(query)
        found == similarity_search(st, k, min_sim, fault, hits)
        raw_results == found.results
        deduplicated == deduplicate(raw_results, SIMILARITY_THRESHOLD)
    IN  IF found.raised = "RuntimeError" THEN [raised |-> FALSE, result |-> result]
        ELSE IF found.raised # "none" THEN [raised |-> TRUE, result |-> result]
        ELSE IF raw_results = <<>> THEN [raised |-> FALSE, result |-> result]
        ELSE [raised |-> FALSE,
              result |-> [query |-> query,
                          documents |-> [i \in 1..Len(deduplicated) |-> deduplicated[i].doc],
                          scores |-> [i \in 1..Len(deduplicated) |-> deduplicated[i].score],
                          context |-> build_context(deduplicated),
                          sources |-> extract_sources(deduplicated)]]

(***************************************************************************)
(* Chunks handed to _compute_doc_id                                        *)
(***************************************************************************)
\* metadata["source"] of a chunk: a name, or "" when the key is missing
Names == SeqsUpTo({"a", "_"}, MaxNameLen)

\* page_content of a chunk
Texts == Names \ {<<>>}

IdentChunks == {Doc(text, src, 1, 0) : text \in Texts, src \in Names}

NoIdent == [op |-> "none", a |-> CatMat, b |-> CatMat, id_a |-> <<>>, id_b |-> <<>>,
            skipped |-> FALSE]

(***************************************************************************)
(* LLMChain.  Answers are TLA+ strings.  Costs are counted in units of     *)
(* 0.0000005 USD, the price of one prompt token; a completion token costs  *)
(* three of them.                                                          *)
(***************************************************************************)
\* the answer of generate_answer to a result without documents
NothingFound ==
    "Ich konnte keine relevanten Informationen zu deiner Frage in dem Dokument finden. Bitte formuliere die Frage anders oder ueberpruefe, ob das Thema im Dokument behandelt wird."

\* LLMResponse(answer, sources, prompt_tokens, completion_tokens, total_tokens)
LLMResponse(answer, sources, prompt_tokens, completion_tokens, total_tokens) ==
    [answer |-> answer, sources |-> sources, prompt_tokens |-> prompt_tokens,
     completion_tokens |-> completion_tokens, total_tokens |-> total_tokens]

NoResponse == LLMResponse("", <<>>, 0, 0, 0)

\* LLMResponse.estimated_cost_usd
estimated_cost_usd(response) ==
    response.prompt_tokens + 3 * response.completion_tokens

\* the LLMChain after __init__
NewChain == [total_tokens_used |-> 0, total_cost_usd |-> 0]

\* response.usage of a completion: absent (<<>>) or the token counts
Usages ==
    {<<>>} \cup
    {<<[prompt_tokens |-> p, completion_tokens |-> c, total_tokens |-> p + c]>> :
        p \in 1..MaxTokens, c \in 1..MaxTokens}

\* response.choices[0].message.content: None (<<>>) or a text
Contents == {<<>>, <<"Antwort: ... Verwendet: [Abschnitt 1]">>}

\* what client.chat.completions.create does: it answers or raises
Completions ==
    [error : {"none"}, content : Contents, usage : Usages] \cup
    [error : {"AuthenticationError", "RateLimitError", "APIError"},
     content : {<<>>}, usage : {<<>>}]

NoCompletion == [error |-> "none", content |-> <<>>, usage |-> <<>>]

\* generate_answer that asks the model whatever the retrieval found
generate_answer_AlwaysAsks(chain, retrieval_result, completion) ==
    IF completion.error # "none"
    THEN [chain |-> chain, called |-> TRUE, raised |-> TRUE, response |-> NoResponse]
    ELSE LET answer == IF completion.content = <<>> THEN "" ELSE completion.content[1]
             usage == completion.usage
             llm_response ==
                 LLMResponse(answer, retrieval_result.sources,
                             IF usage # <<>> THEN usage[1].prompt_tokens ELSE 0,
                             IF usage # <<>> THEN usage[1].completion_tokens ELSE 0,
                             IF usage # <<>> THEN usage[1].total_tokens ELSE 0)
         IN  [chain |-> [total_tokens_used |->
                             chain.total_tokens_used + llm_response.total_tokens,
                         total_cost_usd |->
                             chain.total_cost_usd + estimated_cost_usd(llm_response)],
              called |-> TRUE, raised |-> FALSE, response |-> llm_response]

\* generate_answer(retrieval_result) on a chain; completion is what the
\* model does if it is asked.  Answers the chain after the call, whether
\* the model was asked, whether a RuntimeError leaves the call, and the
\* returned LLMResponse.
generate_answer(chain, retrieval_result, completion) ==
    IF ~found_results(retrieval_result)
    THEN [chain |-> chain, called |-> FALSE, raised |-> FALSE,
          response |-> LLMResponse(NothingFound, <<>>, 0, 0, 0)]
    ELSE IF completion.error # "none"
    THEN [chain |-> chain, called |-> TRUE, raised |-> TRUE, response |-> NoResponse]
    ELSE LET answer == IF completion.content = <<>> THEN "" ELSE completion.content[1]
             usage == completion.usage
             llm_response ==
                 LLMResponse(answer, retrieval_result.sources,
                             IF usage # <<>> THEN usage[1].prompt_tokens ELSE 0,
                             IF usage # <<>> THEN usage[1].completion_tokens ELSE 0,
                             IF usage # <<>> THEN usage[1].total_tokens ELSE 0)
         IN  [chain |-> [total_tokens_used |->
                             chain.total_tokens_used + llm_response.total_tokens,
                         total_cost_usd |->
                             chain.total_cost_usd + estimated_cost_usd(llm_response)],
              called |-> TRUE, raised |-> FALSE, response |-> llm_response]

\* the collection the retrieval results handed to generate_answer come from
AnswerStore == add_documents({}, <<CatMat, Nine>>, MaxBatch, NoFail).store

\* results of retrieve: with and without documents
RetrievalResults ==
    {retrieve(AnswerStore, query, 1, MIN_SIMILARITY, "none", hits).result :
        query \in Queries, hits \in BackendHits(AnswerStore, 1)}

NoLlm == [chain |-> NewChain, op |-> "init", answers |-> 0,
          asked |-> RetrievalResult(<<>>), completion |-> NoCompletion,
          before |-> NewChain, called |-> FALSE, raised |-> FALSE,
          response |-> NoResponse]

(***************************************************************************)
(* PDFProcessor                                                            *)
(***************************************************************************)
Rep(c, n) == [i \in 1..n |-> c]

\* str.strip()
RECURSIVE LStrip(_)
LStrip(s) == IF s # <<>> /\ Head(s) \in Whitespace THEN LStrip(Tail(s)) ELSE s
RECURSIVE RStrip(_)
RStrip(s) ==
    IF s # <<>> /\ s[Len(s)] \in Whitespace THEN RStrip(SubSeq(s, 1, Len(s) - 1)) ELSE s
Strip(s) == RStrip(LStrip(s))

RECURSIVE Concat(_)
Concat(parts) == IF parts = <<>> THEN <<>> ELSE Head(parts) \o Concat(Tail(parts))

\* chunk texts the splitter may answer: one whose stripped length is one
\* below the minimum while its length is above it, one of exactly the
\* minimum, one above it
PShort == <<" ">> \o Rep("x", MinChunkLength - 1) \o <<"\n">>
PExact == Rep("y", MinChunkLength)
PLong == <<"\t">> \o Rep("z", MinChunkLength) \o <<" ", "z", " ">>
Pieces == {PShort, PExact, PLong}

\* text_splitter.split_text(text) of the langchain library: no chunk for a
\* text without printable characters, else consecutive pieces of the text
SplitAnswers == SeqsUpTo(Pieces, MaxSplits)
BlankTexts == {<<>>, <<" ", "\n">>}
PageInputs ==
    {[text |-> Concat(c), split |-> c] : c \in SplitAnswers \ {<<>>}}
        \cup {[text |-> t, split |-> <<>>] : t \in BlankTexts}

\* the lists of page dicts handed to _create_chunks, each page with the
\* answer of the splitter for its text
PdfInput(ps) ==
    [raw_pages |-> [i \in 1..Len(ps) |-> [text |-> ps[i].text, page_number |-> i]],
     split_text |-> [i \in 1..Len(ps) |-> ps[i].split]]
PdfInputs == {PdfInput(ps) : ps \in SeqsUpTo(PageInputs, MaxPages)}
NoPdf == PdfInput(<<>>)
NoChunked == [op |-> "none", raised |-> FALSE, documents |-> <<>>]

\* the test of the inner loop without strip()
too_short_Unstripped(chunk_text) == Len(chunk_text) < MinChunkLength

\* len(chunk_text.strip()) < 30
too_short(chunk_text) == Len(Strip(chunk_text)) < MinChunkLength

\* the body of the inner loop with chunk_index counting dropped chunks too
ChunkStep_CountsDropped(acc, page_data, chunk_text, source_filename) ==
    IF too_short(chunk_text) THEN [acc EXCEPT !.chunk_index = @ + 1]
    ELSE [all_documents |->
              Append(acc.all_documents,
                     Doc(chunk_text, source_filename, page_data.page_number,
                         acc.chunk_index)),
          chunk_index |-> acc.chunk_index + 1]

\* the body of the inner loop of _create_chunks
ChunkStep(acc, page_data, chunk_text, source_filename) ==
    IF too_short(chunk_text) THEN acc
    ELSE [all_documents |->
              Append(acc.all_documents,
                     Doc(chunk_text, source_filename, page_data.page_number,
                         acc.chunk_index)),
          chunk_index |-> acc.chunk_index + 1]

\* for chunk_text in page_chunks
RECURSIVE ChunkLoop(_, _, _, _)
ChunkLoop(acc, page_data, page_chunks, source_filename) ==
    IF page_chunks = <<>> THEN acc
    ELSE ChunkLoop(ChunkStep(acc, page_data, Head(page_chunks), source_filename),
                   page_data, Tail(page_chunks), source_filename)

\* the body of the outer loop making a chunk of a page that has none
PageStep_WholePage(acc, page_data, page_chunks, source_filename) ==
    IF page_chunks = <<>>
    THEN [all_documents |->
              Append(acc.all_documents,
                     Doc(page_data.text, source_filename, page_data.page_number,
                         acc.chunk_index)),
          chunk_index |-> acc.chunk_index + 1]
    ELSE ChunkLoop(acc, page_data, page_chunks, source_filename)

\* the body of the outer loop of _create_chunks
PageStep(acc, page_data, page_chunks, source_filename) ==
    ChunkLoop(acc, page_data, page_chunks, source_filename)

\* for page_data in pages
RECURSIVE PageLoop(_, _, _, _, _)
PageLoop(acc, pages, split_text, i, source_filename) ==
    IF i > Len(pages) THEN acc
    ELSE PageLoop(PageStep(acc, pages[i], split_text[i], source_filename),
                  pages, split_text, i + 1, source_filename)

\* _create_chunks(pages, source_filename)
create_chunks(pages, split_text, source_filename) ==
    PageLoop([all_documents |-> <<>>, chunk_index |-> 0],
             pages, split_text, 1, source_filename).all_documents

\* what _extract_pages guarantees of the pages it returns: the text of a
\* page is what _clean_text returned, a stripped string (empty when the
\* page held nothing but soft hyphens)
Extracted(raw_pages) ==
    \A i \in 1..Len(raw_pages) : raw_pages[i].text = Strip(raw_pages[i].text)

\* load_and_split from the pages _extract_pages returned
load_and_split(raw_pages, split_text, source_filename) ==
    IF raw_pages = <<>> THEN [raised |-> TRUE, documents |-> <<>>]
    ELSE [raised |-> FALSE,
          documents |-> create_chunks(raw_pages, split_text, source_filename)]

(***************************************************************************)
(* main                                                                    *)
(***************************************************************************)
\* the pipeline with the index opened and reset before the file is read
setup_rag_pipeline_ResetFirst(st, extraction, reset_db, fail_at) ==
    LET opened == IF reset_db THEN {} ELSE st
        r == add_documents(opened, extraction.documents, DefaultBatchSize, fail_at)
    IN  IF extraction.raised \/ extraction.documents = <<>>
        THEN [raised |-> TRUE, opened |-> TRUE, store |-> opened]
        ELSE [raised |-> r.raised, opened |-> TRUE, store |-> r.store]

\* setup_rag_pipeline(pdf_path, top_k, reset_db) on the persisted index st;
\* extraction is what load_and_split does on the file.  Answers whether an
\* exception leaves the call, whether the index was opened, and the index
\* after the call.  An empty list of chunks fails at the print of its
\* statistics, which lack the key avg_length.
setup_rag_pipeline(st, extraction, reset_db, fail_at) ==
    LET opened == IF reset_db THEN {} ELSE st
        r == add_documents(opened, extraction.documents, DefaultBatchSize, fail_at)
    IN  IF extraction.raised \/ extraction.documents = <<>>
        THEN [raised |-> TRUE, opened |-> FALSE, store |-> st]
        ELSE [raised |-> r.raised, opened |-> TRUE, store |-> r.store]

\* an index persisted by an earlier run
PersistedIndex == add_documents({}, FileD, DefaultBatchSize, NoFail).store

NoSetup == [op |-> "none", reset_db |-> FALSE, fail_at |-> NoFail, store_before |-> {},
            extraction |-> [raised |-> FALSE, documents |-> <<>>],
            raised |-> FALSE, opened |-> FALSE, exit_code |-> 0]

(***************************************************************************)
(* Callers of one collection that run at the same time                     *)
(***************************************************************************)
\* the callers of add_documents (processes of main on one persistence
\* directory, or threads sharing a VectorStore)
Writers == {"w1", "w2"}

\* the lists the callers hand over, none with a repeated identity
ConcurrentLists == {<<CatMat>>, <<CatMat, Nine>>, <<Nine, Quantum>>}

\* a call of add_documents at its first line
Call(documents, batch_size) ==
    [pc |-> "called", documents |-> documents, batch_size |-> batch_size,
     new_docs |-> <<>>, new_ids |-> <<>>, i |-> 0, added_count |-> 0,
     ret |-> 0]
NoCall == [Call(<<>>, 0) EXCEPT !.pc = "none"]
NoConc == [w |-> [c \in Writers |-> NoCall], reset |-> "none", store0 |-> {}]

(***************************************************************************)
(* Operations                                                              *)
(***************************************************************************)
\* vector_store.add_documents(documents, batch_size), called by
\* setup_rag_pipeline; lastAdd records the call, the count before and after
\* it, whether it repeats the call before (both without a failing batch),
\* whether it follows the reset, and, for a call that a failing batch
\* ended, the collection before the call.  A run of main calls it once; the
\* call that follows another call without a chat in between is the next
\* run over the same file.
AddDocuments(documents, batch_size, fail_at) ==
    LET r == add_documents(store, documents, batch_size, fail_at)
    IN  /\ \/ lastOp \in {"init", "prompt", "reset"}
           \/ /\ lastOp = "add"
              /\ documents = lastAdd.documents
              /\ batch_size = lastAdd.batch_size
        /\ fail_at # NoFail => fail_at * batch_size < Len(NewDocs(store, documents))
        /\ Cardinality(r.store) <= MaxStore
        /\ store' = r.store
        /\ lastOp' = "add"
        /\ lastAdd' = [documents |-> documents, batch_size |-> batch_size,
                       fail_at |-> fail_at,
                       before |-> get_document_count(store, FALSE),
                       after |-> get_document_count(r.store, FALSE),
                       ret |-> r.added_count, raised |-> r.raised,
                       faulted |-> r.faulted,
                       repeat |-> (lastOp = "add" /\ lastAdd.documents = documents
                                      /\ lastAdd.batch_size = batch_size
                                      /\ lastAdd.fail_at = NoFail /\ fail_at = NoFail),
                       prevAfter |-> lastAdd.after,
                       after_reset |-> (lastOp = "reset"),
                       store_before |-> IF r.faulted THEN store ELSE {}]
        /\ lastRet' = NoRet
        /\ UNCHANGED <<chunkVars, concVars, llmVars, identVars, setupVars>>

\* Retriever(vector_store, k, min_sim).retrieve(query), called at the prompt
\* of the chat loop; hits is what the backend search answers if it is asked
\* and does not fail
Retrieve(query, k, min_sim, fault, hits) ==
    LET found == similarity_search(store, k, min_sim, fault, hits)
        r == retrieve(store, query, k, min_sim, fault, hits)
    IN  /\ lastOp = "prompt"
        /\ lastOp' = "retrieve"
        /\ lastRet' = [query |-> query, top_k |-> k, min_similarity |-> min_sim,
                       fault |-> fault, count |-> Count(store), hits |-> hits,
                       searched |-> found.searched, searchRaised |-> found.raised,
                       found |-> found.results, raised |-> r.raised,
                       result |-> r.result]
        /\ store' = after_search(store, found.results)
        /\ UNCHANGED lastAdd
        /\ UNCHANGED <<chunkVars, concVars, llmVars, identVars, setupVars>>

\* the reset of setup_rag_pipeline(reset_db=True): the persistence
\* directory is deleted and the VectorStore built anew; add_documents
\* follows
Reset ==
    /\ lastOp \in {"init", "prompt"}
    /\ store' = {}
    /\ lastOp' = "reset"
    /\ lastAdd' = NoAdd
    /\ lastRet' = NoRet
    /\ UNCHANGED <<chunkVars, concVars, llmVars, identVars, setupVars>>

\* main reports the exception of setup_rag_pipeline and returns 1; the
\* next run starts
SetupFailed ==
    /\ lastOp = "add"
    /\ lastAdd.raised
    /\ lastOp' = "init"
    /\ lastAdd' = NoAdd
    /\ UNCHANGED <<store, lastRet>>
    /\ UNCHANGED <<chunkVars, concVars, llmVars, identVars, setupVars>>

\* main goes from a setup_rag_pipeline that did not raise on to
\* interactive_chat_loop, which waits at its prompt
StartChat ==
    /\ lastOp \in {"init", "add"}
    /\ ~lastAdd.raised
    /\ lastOp' = "prompt"
    /\ lastAdd' = NoAdd
    /\ UNCHANGED <<store, lastRet>>
    /\ UNCHANGED <<chunkVars, concVars, llmVars, identVars, setupVars>>

\* the rest of an iteration of interactive_chat_loop: the answer to the
\* retrieval result is generated and printed, the result is dropped and the
\* loop is back at its prompt
Answer ==
    /\ lastOp = "retrieve"
    /\ lastOp' = "prompt"
    /\ lastRet' = NoRet
    /\ UNCHANGED <<store, lastAdd>>
    /\ UNCHANGED <<chunkVars, concVars, llmVars, identVars, setupVars>>

Init ==
    /\ store = {}
    /\ lastOp = "init"
    /\ lastAdd = NoAdd
    /\ lastRet = NoRet
    /\ pdf = NoPdf
    /\ chunked = NoChunked
    /\ conc = NoConc
    /\ llm = NoLlm
    /\ ident = NoIdent
    /\ setup = NoSetup

Next ==
    \/ /\ lastOp # "retrieve"
       /\ \E documents \in DocumentLists, batch_size \in 1..MaxBatch :
              \E fail_at \in {NoFail} \cup 0..MaxDocs :
                  AddDocuments(documents, batch_size, fail_at)
    \/ Reset
    \/ /\ lastOp = "prompt"
       /\ \E k \in 1..MaxK : \E hits \in BackendHits(store, k) :
              \E query \in Queries, min_sim \in MinSimilarities :
                  Retrieve(query, k, min_sim, "none", hits)
    \/ /\ lastOp = "prompt"
       /\ \E query \in Queries, k \in 1..MaxK, min_sim \in MinSimilarities,
             fault \in Faults :
              Retrieve(query, k, min_sim, fault, <<>>)
    \/ SetupFailed
    \/ StartChat
    \/ Answer

Spec == Init /\ [][Next]_vars

\* llm_chain.generate_answer(retrieval_result) in the chat loop
GenerateAnswer(retrieval_result, completion) ==
    LET r == generate_answer(llm.chain, retrieval_result, completion)
    IN  /\ llm.answers < MaxAnswers
        /\ llm' = [chain |-> r.chain, op |-> "generate_answer",
                   answers |-> llm.answers + 1, asked |-> retrieval_result,
                   completion |-> completion, before |-> llm.chain,
                   called |-> r.called, raised |-> r.raised,
                   response |-> r.response]
        /\ UNCHANGED <<mainVars, chunkVars, concVars, identVars, setupVars>>

InitAnswer == Init

NextAnswer ==
    \E retrieval_result \in RetrievalResults, completion \in Completions :
        GenerateAnswer(retrieval_result, completion)

SpecAnswer == InitAnswer /\ [][NextAnswer]_vars

\* a run of main on the file pdf, with or without --reset-db, over the
\* persisted index; fail_at is the batch at which the backend fails
MainRun(reset_db, fail_at) ==
    LET extraction == load_and_split(pdf.raw_pages, pdf.split_text, SrcD)
        r == setup_rag_pipeline(store, extraction, reset_db, fail_at)
    IN  /\ setup.op = "none"
        /\ Extracted(pdf.raw_pages)
        /\ store' = r.store
        /\ setup' = [op |-> "main", reset_db |-> reset_db, fail_at |-> fail_at,
                     store_before |-> store, extraction |-> extraction,
                     raised |-> r.raised, opened |-> r.opened,
                     exit_code |-> IF r.raised THEN 1 ELSE 0]
        /\ UNCHANGED <<lastOp, lastAdd, lastRet, pdf, chunked, concVars, llmVars,
                       identVars>>

InitSetup ==
    /\ store \in {{}, PersistedIndex}
    /\ lastOp = "init"
    /\ lastAdd = NoAdd
    /\ lastRet = NoRet
    /\ pdf \in {p \in PdfInputs : Extracted(p.raw_pages)}
    /\ chunked = NoChunked
    /\ conc = NoConc
    /\ llm = NoLlm
    /\ ident = NoIdent
    /\ setup = NoSetup

NextSetup == \E reset_db \in BOOLEAN, fail_at \in {NoFail, 0} : MainRun(reset_db, fail_at)

SpecSetup == InitSetup /\ [][NextSetup]_vars

\* _compute_doc_id on the two chunks, and add_documents([b]) on a
\* collection that holds a
ComputeDocIds ==
    LET holding_a == add_documents({}, <<ident.a>>, 1, NoFail).store
        r == add_documents(holding_a, <<ident.b>>, 1, NoFail)
    IN  /\ ident.op = "chunks"
        /\ ident' = [ident EXCEPT !.op = "compute_doc_id",
                                  !.id_a = compute_doc_id(ident.a),
                                  !.id_b = compute_doc_id(ident.b),
                                  !.skipped = (r.added_count = 0 /\ r.store = holding_a)]
        /\ UNCHANGED <<mainVars, chunkVars, concVars, llmVars, setupVars>>

InitIdentity ==
    /\ store = {}
    /\ lastOp = "init"
    /\ lastAdd = NoAdd
    /\ lastRet = NoRet
    /\ pdf = NoPdf
    /\ chunked = NoChunked
    /\ conc = NoConc
    /\ llm = NoLlm
    /\ setup = NoSetup
    /\ \E a \in IdentChunks, b \in IdentChunks :
          ident = [NoIdent EXCEPT !.op = "chunks", !.a = a, !.b = b]

NextIdentity == ComputeDocIds

SpecIdentity == InitIdentity /\ [][NextIdentity]_vars

\* _create_chunks applied to the pages of pdf
CreateChunks ==
    /\ chunked.op = "none"
    /\ chunked' = [op |-> "create_chunks", raised |-> FALSE,
                   documents |-> create_chunks(pdf.raw_pages, pdf.split_text, SrcD)]
    /\ UNCHANGED <<pdf, mainVars, concVars, llmVars, identVars, setupVars>>

\* load_and_split once _extract_pages has returned the pages of pdf
LoadAndSplit ==
    LET r == load_and_split(pdf.raw_pages, pdf.split_text, SrcD)
    IN  /\ chunked.op = "none"
        /\ Extracted(pdf.raw_pages)
        /\ chunked' = [op |-> "load_and_split", raised |-> r.raised,
                       documents |-> r.documents]
        /\ UNCHANGED <<pdf, mainVars, concVars, llmVars, identVars, setupVars>>

\* add_documents of caller c up to the batch loop: the ids are read from
\* the collection and the documents of the list are filtered against them
ReadExistingIds(c) ==
    LET me == conc.w[c]
        new_docs == NewDocs(store, me.documents)
        new_ids == [i \in 1..Len(new_docs) |-> compute_doc_id(new_docs[i])]
    IN  /\ me.pc = "called"
        /\ conc' = [conc EXCEPT !.w[c] =
                        IF new_docs = <<>> THEN [me EXCEPT !.pc = "returned"]
                        ELSE [me EXCEPT !.pc = "batches", !.new_docs = new_docs,
                                        !.new_ids = new_ids]]
        /\ UNCHANGED <<mainVars, chunkVars, llmVars, identVars, setupVars>>

\* one iteration of the batch loop of caller c, and the return after the
\* last one
AddBatch(c) ==
    LET me == conc.w[c]
        hi == IF me.i + me.batch_size > Len(me.new_docs) THEN Len(me.new_docs)
              ELSE me.i + me.batch_size
        batch_docs == SubSeq(me.new_docs, me.i + 1, hi)
        batch_ids == SubSeq(me.new_ids, me.i + 1, hi)
        added_count == me.added_count + Len(batch_docs)
    IN  /\ me.pc = "batches"
        /\ IF HasDuplicateIds(batch_ids)
           THEN /\ conc' = [conc EXCEPT !.w[c].pc = "raised"]
                /\ UNCHANGED store
           ELSE /\ store' = db_add_documents(store, batch_docs, batch_ids)
                /\ conc' = [conc EXCEPT !.w[c] =
                                [me EXCEPT !.i = me.i + me.batch_size,
                                           !.added_count = added_count,
                                           !.ret = IF hi = Len(me.new_docs)
                                                   THEN added_count ELSE 0,
                                           !.pc = IF hi = Len(me.new_docs)
                                                  THEN "returned" ELSE "batches"]]
        /\ UNCHANGED <<lastOp, lastAdd, lastRet, chunkVars, llmVars, identVars, setupVars>>

\* the reset of another run of setup_rag_pipeline while the callers run
ConcurrentReset ==
    /\ conc.reset = "called"
    /\ store' = {}
    /\ conc' = [conc EXCEPT !.reset = "returned"]
    /\ UNCHANGED <<lastOp, lastAdd, lastRet, chunkVars, llmVars, identVars, setupVars>>

\* two callers at the first line of add_documents, with or without a
\* reset to come, on a collection that holds nothing or one chunk
InitConcurrent ==
    /\ store \in {{}, {[id |-> compute_doc_id(CatMat), doc |-> CatMat]}}
    /\ lastOp = "init"
    /\ lastAdd = NoAdd
    /\ lastRet = NoRet
    /\ pdf = NoPdf
    /\ chunked = NoChunked
    /\ \E calls \in [Writers -> {Call(d, b) : d \in ConcurrentLists, b \in 1..MaxBatch}],
          reset \in {"none", "called"} :
          conc = [w |-> calls, reset |-> reset, store0 |-> store]
    /\ llm = NoLlm
    /\ ident = NoIdent
    /\ setup = NoSetup

NextConcurrent ==
    \/ \E c \in Writers : ReadExistingIds(c)
    \/ \E c \in Writers : AddBatch(c)
    \/ ConcurrentReset

SpecConcurrent == InitConcurrent /\ [][NextConcurrent]_vars

\* a PDFProcessor before a document, of any pages, is handed to it
InitChunker ==
    /\ store = {}
    /\ lastOp = "init"
    /\ lastAdd = NoAdd
    /\ lastRet = NoRet
    /\ pdf \in PdfInputs
    /\ chunked = NoChunked
    /\ conc = NoConc
    /\ llm = NoLlm
    /\ ident = NoIdent
    /\ setup = NoSetup

NextChunker == CreateChunks \/ LoadAndSplit

SpecChunker == InitChunker /\ [][NextChunker]_vars

(***************************************************************************)
(* Properties                                                              *)
(***************************************************************************)
Added == lastOp = "add"
Retrieved == lastOp = "retrieve"
Res == lastRet.result

SamePair(d1, d2) == d1.source = d2.source /\ d1.page_content = d2.page_content

\* C1: calling add_documents(D) and then add_documents(D) again (lastAdd.repeat:
\* the same list and batch size as the call before) leaves
\* get_document_count() at its value after the first call, and the second
\* call returns 0.
C1_IdempotentIndexing ==
    (Added /\ lastAdd.repeat) =>
        /\ ~lastAdd.raised
        /\ lastAdd.ret = 0
        /\ lastAdd.after = lastAdd.prevAfter

\* C2: in every state reached by add_documents calls, whatever the batch
\* size and also when a list holds the same (source, text) pair more than
\* once, the index holds at most one entry per distinct (source, text) pair.
C2_OneEntryPerPair ==
    \A e1, e2 \in store : SamePair(e1.doc, e2.doc) => e1 = e2

\* a call that returned, whose list held a pair twice, and the pair stored
C2_Witness ==
    /\ Added /\ ~lastAdd.raised
    /\ \E i, j \in 1..Len(lastAdd.documents) :
          /\ i # j
          /\ SamePair(lastAdd.documents[i], lastAdd.documents[j])
          /\ lastAdd.documents[i] # lastAdd.documents[j]
          /\ \E e \in store : SamePair(e.doc, lastAdd.documents[i])
    /\ lastAdd.after > lastAdd.before

\* C3: the integer returned by add_documents(D) is the number of newly
\* added chunks: get_document_count() after the call minus
\* get_document_count() before it, also for lists with repeated pairs.
C3_ReturnsNewlyAdded ==
    (Added /\ ~lastAdd.raised) => lastAdd.ret = lastAdd.after - lastAdd.before

\* C4: on an index with zero entries similarity_search raises the
\* empty-index RuntimeError without calling the backend search, and
\* retrieve returns a result with found_results false and empty documents,
\* context and sources instead of raising.
C4_EmptyIndex ==
    (Retrieved /\ lastRet.count = 0) =>
        /\ lastRet.searchRaised = "RuntimeError"
        /\ ~lastRet.searched
        /\ ~lastRet.raised
        /\ ~found_results(Res)
        /\ Res.documents = <<>> /\ Res.context = <<>> /\ Res.sources = <<>>

\* a query of the empty index with a healthy backend
C4_Witness ==
    /\ Retrieved /\ lastRet.count = 0 /\ store = {}
    /\ lastRet.fault = "none"
    /\ lastRet.searchRaised = "RuntimeError" /\ ~lastRet.raised

\* C5: a failure of the index query other than the empty-index condition
\* (the count, or the search, of the backend failing on a non-empty index)
\* leaves retrieve as an error, never as an empty RetrievalResult.
C5_FailuresPropagate ==
    (Retrieved /\ lastRet.count > 0 /\ lastRet.fault # "none") => lastRet.raised

\* C6: every pair returned by similarity_search has score >= min_similarity
\* and every pair of the backend with score >= min_similarity is returned.
C6_SimilarityFiltering ==
    (Retrieved /\ lastRet.searchRaised = "none") =>
        /\ \A i \in 1..Len(lastRet.found) :
              /\ lastRet.found[i].score >= lastRet.min_similarity
              /\ lastRet.found[i] \in SeqRange(lastRet.hits)
        /\ \A i \in 1..Len(lastRet.hits) :
              lastRet.hits[i].score >= lastRet.min_similarity
                  => lastRet.hits[i] \in SeqRange(lastRet.found)
        /\ Len(lastRet.found) =
              Cardinality({i \in 1..Len(lastRet.hits) :
                              lastRet.hits[i].score >= lastRet.min_similarity})

\* a search with a hit below, a hit at and a hit above the threshold
C6_Witness ==
    /\ Retrieved /\ lastRet.searchRaised = "none"
    /\ \E i, j, l \in 1..Len(lastRet.hits) :
          /\ lastRet.hits[i].score > lastRet.min_similarity
          /\ lastRet.hits[j].score = lastRet.min_similarity
          /\ lastRet.hits[l].score < lastRet.min_similarity
    /\ Len(lastRet.found) = 2

PosInFound(doc) ==
    IF \E i \in 1..Len(lastRet.found) : lastRet.found[i].doc = doc
    THEN CHOOSE i \in 1..Len(lastRet.found) : lastRet.found[i].doc = doc
    ELSE 0

\* C8: documents and scores of the result have equal length, scores[i] is
\* the score the query returned for documents[i], and the pairs are a
\* subsequence of the query's list in the same relative order.
C8_OrderPreserved ==
    (Retrieved /\ ~lastRet.raised) =>
        /\ Len(Res.documents) = Len(Res.scores)
        /\ \A i \in 1..Len(Res.documents) :
              /\ PosInFound(Res.documents[i]) > 0
              /\ i <= Len(Res.scores)
                    => Res.scores[i] = lastRet.found[PosInFound(Res.documents[i])].score
        /\ \A i, j \in 1..Len(Res.documents) :
              i < j => PosInFound(Res.documents[i]) < PosInFound(Res.documents[j])

\* deduplication dropped the middle one of three results of different score
C8_Witness ==
    /\ Retrieved /\ ~lastRet.raised
    /\ Len(lastRet.found) = 3 /\ Len(Res.documents) = 2
    /\ Res.documents[2] = lastRet.found[3].doc
    /\ Res.scores = <<lastRet.found[1].score, lastRet.found[3].score>>
    /\ Res.scores[1] > Res.scores[2]

\* word-set Jaccard similarity >= 0.90 of two texts, lowercased and split
\* at whitespace
WordSet(text) == SeqRange(Split(Lower(text)))

NearIdentical(text1, text2) ==
    /\ WordSet(text1) # {} /\ WordSet(text2) # {}
    /\ 10 * Cardinality(WordSet(text1) \cap WordSet(text2))
          >= 9 * Cardinality(WordSet(text1) \cup WordSet(text2))

InResult(doc) == doc \in SeqRange(Res.documents)

NoTwoNearIdentical ==
    \A i, j \in 1..Len(Res.documents) :
        i # j => ~NearIdentical(Res.documents[i].page_content, Res.documents[j].page_content)

\* C9 as claimed: no two documents of the result are near-identical, and of
\* two near-identical chunks that pass the threshold only the one ranked
\* earlier appears.
C9_OnlyEarlierAppears ==
    (Retrieved /\ ~lastRet.raised) =>
        /\ NoTwoNearIdentical
        /\ \A i, j \in 1..Len(lastRet.found) :
              (i < j /\ NearIdentical(lastRet.found[i].doc.page_content,
                                      lastRet.found[j].doc.page_content))
                  => InResult(lastRet.found[i].doc) /\ ~InResult(lastRet.found[j].doc)

\* C9 amended: no two documents of the result are near-identical; of two
\* near-identical chunks that pass the threshold the later one is absent
\* whenever the earlier one is kept, and a chunk is dropped only if it is
\* near-identical to a kept chunk ranked before it.
C9_Deduplication ==
    (Retrieved /\ ~lastRet.raised) =>
        /\ NoTwoNearIdentical
        /\ \A i, j \in 1..Len(lastRet.found) :
              (i < j /\ NearIdentical(lastRet.found[i].doc.page_content,
                                      lastRet.found[j].doc.page_content)
                     /\ InResult(lastRet.found[i].doc))
                  => ~InResult(lastRet.found[j].doc)
        /\ \A j \in 1..Len(lastRet.found) :
              ~InResult(lastRet.found[j].doc) =>
                  \E i \in 1..(j - 1) :
                      /\ InResult(lastRet.found[i].doc)
                      /\ NearIdentical(lastRet.found[i].doc.page_content,
                                       lastRet.found[j].doc.page_content)

\* two near-identical chunks with 9 of 10 words in common passed the
\* threshold and only the earlier one is in the result
C9_Witness ==
    /\ Retrieved /\ ~lastRet.raised
    /\ Len(lastRet.found) >= 2
    /\ lastRet.found[1].doc.page_content # lastRet.found[2].doc.page_content
    /\ NearIdentical(lastRet.found[1].doc.page_content, lastRet.found[2].doc.page_content)
    /\ InResult(lastRet.found[1].doc) /\ ~InResult(lastRet.found[2].doc)

\* the scenario: the index holds the two cat chunks (page 1) and the
\* quantum chunk (page 2), top_k = 2, min_similarity = 0.3, and the two cat
\* chunks are the two hits, both passing the threshold
CatScenario ==
    /\ Retrieved /\ lastRet.fault = "none"
    /\ {e.doc : e \in store} = {CatMat, CatRug, Quantum}
    /\ lastRet.top_k = 2 /\ lastRet.min_similarity = MIN_SIMILARITY
    /\ Len(lastRet.hits) = 2
    /\ {lastRet.hits[1].doc, lastRet.hits[2].doc} = {CatMat, CatRug}
    /\ lastRet.hits[2].score >= MIN_SIMILARITY

SeiteEins == <<"S","e","i","t","e"," ","1">>

\* C10 as claimed: in the scenario retrieve returns exactly one cat chunk,
\* the higher-scoring one, cites page 1 and does not contain the quantum
\* chunk.
C10_OneCatChunk ==
    CatScenario =>
        /\ Res.documents = <<lastRet.hits[1].doc>>
        /\ SeiteEins \in SeqRange(Res.sources)
        /\ Contains(Res.context, SeiteEins)
        /\ ~InResult(Quantum)
        /\ ~Contains(Res.context, TQuantum)

\* C10 amended: in the scenario retrieve returns both cat chunks in score
\* order (their word sets share 4 of 6 words, below 0.90), cites page 1
\* once and does not contain the quantum chunk.
C10_BothCatChunks ==
    CatScenario =>
        /\ Res.documents = <<lastRet.hits[1].doc, lastRet.hits[2].doc>>
        /\ Res.scores = <<lastRet.hits[1].score, lastRet.hits[2].score>>
        /\ Res.sources = <<SeiteEins>>
        /\ Contains(Res.context, SeiteEins)
        /\ Contains(Res.context, TCatMat) /\ Contains(Res.context, TCatRug)
        /\ ~InResult(Quantum)
        /\ ~Contains(Res.context, TQuantum)

\* the scenario with the mat chunk scoring higher than the rug chunk
C10_Witness ==
    /\ CatScenario
    /\ lastRet.hits[1].doc = CatMat
    /\ lastRet.hits[1].score > lastRet.hits[2].score
    /\ Len(Res.documents) = 2

\* the citation label of a chunk and the number its label is sorted by
SourceLabel(doc) == <<"S", "e", "i", "t", "e", " ">> \o PageStr(doc)
PageKey(doc) == IF doc.page \in {NoPage, UnknownPage} THEN 0 ELSE doc.page
Returned == Retrieved /\ ~lastRet.raised

\* the position of the first returned chunk that carries the label
FirstSeen(label) ==
    CHOOSE i \in 1..Len(Res.documents) :
        /\ SourceLabel(Res.documents[i]) = label
        /\ \A j \in 1..(i - 1) : SourceLabel(Res.documents[j]) # label

\* C13: the labels of sources are the labels of the returned chunks, in
\* ascending order of the page number they name; a label whose page marker
\* is not a number counts as 0 and so comes before every page >= 1; two
\* different labels of the same number stay in the order they were first
\* met in the returned chunks.
C13_SourcesSorted ==
    Returned =>
        /\ \A i \in 1..Len(Res.sources) :
              \E d \in SeqRange(Res.documents) : SourceLabel(d) = Res.sources[i]
        /\ \A i, j \in 1..Len(Res.sources) :
              \A d1, d2 \in SeqRange(Res.documents) :
                  (i < j /\ SourceLabel(d1) = Res.sources[i]
                         /\ SourceLabel(d2) = Res.sources[j]) =>
                      /\ PageKey(d1) <= PageKey(d2)
                      /\ (PageKey(d1) = PageKey(d2) /\ Res.sources[i] # Res.sources[j])
                             => FirstSeen(Res.sources[i]) < FirstSeen(Res.sources[j])

\* page 10 ranked before page 2, and sources naming page 2 first
C13_Witness ==
    /\ Returned
    /\ Len(Res.documents) = 2
    /\ Res.documents[1].page = 10 /\ Res.documents[2].page = 2
    /\ Res.sources = <<SourceLabel(Res.documents[2]), SourceLabel(Res.documents[1])>>

\* C14: no label occurs twice in sources, and sources holds exactly one
\* label for each distinct (source, page) pair of the returned chunks.
C14_UniqueLabels ==
    Returned =>
        /\ Distinct(Res.sources)
        /\ Len(Res.sources) =
              Cardinality({<<d.source, d.page>> : d \in SeqRange(Res.documents)})

\* C15: found_results is true exactly when a chunk survived the threshold
\* and the removal of duplicates, and top_score is the largest of scores,
\* 0 when scores is empty.
C15_FoundAndTopScore ==
    Returned =>
        /\ found_results(Res) <=> (lastRet.searchRaised = "none" /\ lastRet.found # <<>>)
        /\ found_results(Res) <=> Res.scores # <<>>
        /\ IF Res.scores = <<>> THEN top_score(Res) = 0
           ELSE /\ \E i \in 1..Len(Res.scores) : top_score(Res) = Res.scores[i]
                /\ \A i \in 1..Len(Res.scores) : top_score(Res) >= Res.scores[i]

\* a result of two chunks with different scores
C15_Witness ==
    /\ Returned /\ found_results(Res)
    /\ Len(Res.scores) = 2
    /\ Res.scores[1] > Res.scores[2]
    /\ top_score(Res) = Res.scores[1]

\* the section the i-th returned chunk is shown in
ExpectedSection(i) ==
    LET d == Res.documents[i]
    IN  <<"[", "A", "b", "s", "c", "h", "n", "i", "t", "t", " ">> \o Str(i)
            \o <<"]", " ", "(", "Q", "u", "e", "l", "l", "e", ":", " ">> \o d.source
            \o <<",", " ", "S", "e", "i", "t", "e", " ">> \o PageStr(d)
            \o <<")", "\n">> \o d.page_content

RECURSIVE ExpectedContext(_)
ExpectedContext(n) ==
    IF n = 0 THEN <<>>
    ELSE IF n = 1 THEN ExpectedSection(1)
    ELSE ExpectedContext(n - 1) \o <<"\n", "\n", "-", "-", "-", "\n", "\n">>
             \o ExpectedSection(n)

\* C16: context holds one section per returned chunk, in the order of the
\* chunks; section i (from 1) is the label "[Abschnitt i]", the source and
\* the page of the chunk, a line break and the text of the chunk; the
\* sections are joined by the delimiter, and without chunks context is "".
C16_ContextSections ==
    Returned => Res.context = ExpectedContext(Len(Res.documents))

\* a context of two sections, one of a chunk without page metadata
C16_Witness ==
    /\ Returned
    /\ Len(Res.documents) = 2
    /\ Res.documents[1].page = NoPage
    /\ Contains(Res.context, <<"\n", "\n", "-", "-", "-", "\n", "\n", "[", "A", "b", "s", "c", "h", "n", "i", "t", "t", " ", "2", "]">>)

\* the PDFProcessor returned a list of chunks
Chunked == chunked.op # "none" /\ ~chunked.raised
TrimmedLength(text) == Len(Strip(text))

\* the places (page, position) of the chunks the splitter answered whose
\* trimmed length reaches the minimum
LongEnough ==
    {<<i, j>> \in (1..Len(pdf.split_text)) \X (1..MaxSplits) :
        /\ j <= Len(pdf.split_text[i])
        /\ TrimmedLength(pdf.split_text[i][j]) >= MinChunkLength}

\* C11: no chunk returned by _create_chunks has a whitespace-trimmed text
\* shorter than 30 characters, and every chunk the splitter produced whose
\* trimmed length is at least 30 is returned, with the page it came from.
C11_MinimumLength ==
    Chunked =>
        /\ \A k \in 1..Len(chunked.documents) :
              TrimmedLength(chunked.documents[k].page_content) >= MinChunkLength
        /\ \A p \in LongEnough :
              \E k \in 1..Len(chunked.documents) :
                  /\ chunked.documents[k].page_content = pdf.split_text[p[1]][p[2]]
                  /\ chunked.documents[k].page = pdf.raw_pages[p[1]].page_number
        /\ Len(chunked.documents) = Cardinality(LongEnough)

\* a page split into a chunk of trimmed length 29 (length 31) and one of
\* length 30: the second is returned alone
C11_Witness ==
    /\ chunked.op = "create_chunks"
    /\ Len(pdf.raw_pages) = 1
    /\ pdf.split_text[1] = <<PShort, PExact>>
    /\ Len(PShort) > MinChunkLength /\ TrimmedLength(PShort) < MinChunkLength
    /\ Len(chunked.documents) = 1
    /\ chunked.documents[1].page_content = PExact

\* C12: the chunks returned by _create_chunks carry the chunk_index values
\* 0, 1, ..., n-1 in the order of the list: the counter goes on over page
\* boundaries and a dropped chunk takes no index.
C12_ChunkIndex ==
    Chunked =>
        \A k \in 1..Len(chunked.documents) : chunked.documents[k].chunk_index = k - 1

\* two pages, a dropped chunk before the kept chunk of the first page, and
\* the chunk of the second page numbered 1
C12_Witness ==
    /\ chunked.op = "create_chunks"
    /\ Len(pdf.raw_pages) = 2
    /\ Len(pdf.split_text[1]) = 2
    /\ pdf.split_text[1][1] = PShort
    /\ Len(chunked.documents) = 2
    /\ chunked.documents[1].page = 1 /\ chunked.documents[1].chunk_index = 0
    /\ chunked.documents[2].page = 2 /\ chunked.documents[2].chunk_index = 1

\* every page text is empty or blank (also: there is no page)
EmptyInput ==
    \A i \in 1..Len(pdf.raw_pages) : TrimmedLength(pdf.raw_pages[i].text) = 0

\* C20: handed pages whose texts are all empty, or no page, _create_chunks
\* returns the empty list and raises nothing.
C20_EmptyInput ==
    (chunked.op = "create_chunks" /\ EmptyInput) =>
        /\ chunked.documents = <<>>
        /\ ~chunked.raised

\* _create_chunks has run over two pages of empty text
C20_Witness ==
    /\ chunked.op = "create_chunks"
    /\ Len(pdf.raw_pages) = 2
    /\ EmptyInput
    /\ pdf.raw_pages[1].text = <<>>
    /\ chunked.documents = <<>>

\* the entry the collection holds for a chunk
Entry(doc) == [id |-> compute_doc_id(doc), doc |-> doc]

\* a step that is a call of add_documents ended by the failure of batch
\* fail_at: the chunks the call found new, and the number of those that lie
\* in the batches before the failing one
FailedNew == NewDocs(store, lastAdd'.documents)
FailedDone == lastAdd'.fail_at * lastAdd'.batch_size

\* a step that calls add_documents again with the list and batch size of a
\* call that a failing batch ended, and returns
Resumed ==
    /\ lastOp = "add" /\ lastAdd.faulted
    /\ lastOp' = "add" /\ ~lastAdd'.raised
    /\ lastAdd'.documents = lastAdd.documents
    /\ lastAdd'.batch_size = lastAdd.batch_size

\* C17: when the backend add of batch j fails during add_documents the
\* call raises, every entry stored before and every entry of the batches
\* 0..j-1 is stored after it and no entry of the batches j.. is; a later
\* add_documents of the same input that returns leaves the collection as a
\* call without failure would have left it.
C17_PartialProgress ==
    [][/\ (lastOp' = "add" /\ lastAdd'.faulted) =>
              /\ lastAdd'.raised
              /\ store \subseteq store'
              /\ \A p \in 1..Len(FailedNew) :
                    IF p <= FailedDone THEN Entry(FailedNew[p]) \in store'
                    ELSE Entry(FailedNew[p]) \notin store'
       /\ Resumed =>
              store' = add_documents(lastAdd.store_before, lastAdd.documents,
                                     lastAdd.batch_size, NoFail).store]_vars

\* the number of distinct identities of the chunks of a list
DistinctIds(documents) ==
    Cardinality({compute_doc_id(documents[i]) : i \in 1..Len(documents)})

\* C19: after the reset get_document_count() is 0 and is_empty() is true
\* whatever the collection held, and the add_documents(D) that follows
\* returns the number of distinct identities in D.
C19_ResetClears ==
    /\ lastOp = "reset" =>
          /\ get_document_count(store, FALSE) = 0
          /\ is_empty(store, FALSE)
    /\ (Added /\ lastAdd.after_reset /\ ~lastAdd.raised) =>
          lastAdd.ret = DistinctIds(lastAdd.documents)

\* the operations that ran at once, and the orders they can be put in
ConcurrentOps == Writers \cup (IF conc.reset = "returned" THEN {"reset"} ELSE {})
Orders == {o \in Arrangements(ConcurrentOps, Cardinality(ConcurrentOps)) : Distinct(o)}
AllReturned ==
    /\ \A c \in Writers : conc.w[c].pc \in {"returned", "raised"}
    /\ conc.reset # "called"

\* the collection and the returned counts when the operations run one
\* after the other in the order given
RECURSIVE RunInOrder(_, _, _)
RunInOrder(order, st, rets) ==
    IF order = <<>> THEN [store |-> st, rets |-> rets]
    ELSE IF Head(order) = "reset" THEN RunInOrder(Tail(order), {}, rets)
    ELSE LET me == conc.w[Head(order)]
             r == add_documents(st, me.documents, me.batch_size, NoFail)
         IN  RunInOrder(Tail(order), r.store,
                        [rets EXCEPT ![Head(order)] =
                            [ret |-> IF r.raised THEN 0 ELSE r.added_count,
                             raised |-> r.raised]])

\* C18: when two add_documents calls, or such calls and a reset, run at
\* the same time on one collection, the collection and the returned counts
\* are those of some order of running them one after the other; without a
\* reset the returned counts add up to the number of entries added.
C18_Serialized ==
    AllReturned =>
        /\ \E o \in Orders :
              LET r == RunInOrder(o, conc.store0,
                                  [c \in Writers |-> [ret |-> 0, raised |-> FALSE]])
              IN  /\ r.store = store
                  /\ \A c \in Writers :
                        /\ r.rets[c].raised = (conc.w[c].pc = "raised")
                        /\ r.rets[c].ret = conc.w[c].ret
        /\ (conc.reset = "none" /\ \A c \in Writers : conc.w[c].pc = "returned") =>
              conc.w["w1"].ret + conc.w["w2"].ret =
                  Cardinality(store) - Cardinality(conc.store0)

\* C22: _deduplicate keeps the first result whatever it is, and drops a
\* later result exactly when its Jaccard similarity is >= 0.90 against at
\* least one result kept before it, whichever of them; a result below 0.90
\* against every kept one is kept.
C22_AgainstAllKept ==
    (Returned /\ lastRet.found # <<>>) =>
        /\ InResult(lastRet.found[1].doc)
        /\ \A j \in 2..Len(lastRet.found) :
              ~InResult(lastRet.found[j].doc) <=>
                  \E i \in 1..(j - 1) :
                      /\ InResult(lastRet.found[i].doc)
                      /\ NearIdentical(lastRet.found[i].doc.page_content,
                                       lastRet.found[j].doc.page_content)

\* the third hit is near-identical to the first, not to the second, which
\* was kept, and is dropped
C22_Witness ==
    /\ Returned
    /\ Len(lastRet.found) = 3
    /\ NearIdentical(lastRet.found[1].doc.page_content, lastRet.found[3].doc.page_content)
    /\ ~NearIdentical(lastRet.found[2].doc.page_content, lastRet.found[3].doc.page_content)
    /\ ~NearIdentical(lastRet.found[1].doc.page_content, lastRet.found[2].doc.page_content)
    /\ Len(Res.documents) = 2
    /\ Res.documents = <<lastRet.found[1].doc, lastRet.found[2].doc>>

C24_QueriesReadOnly ==
    [][lastOp' = "retrieve" =>
           /\ store' = store
           /\ get_document_count(store', FALSE) = get_document_count(store, FALSE)]_vars

\* a retrieval that returned entries of the collection, which still holds
\* every entry it was searched with
C24_Witness ==
    /\ Returned
    /\ Len(Res.documents) >= 1
    /\ Count(store) = lastRet.count
    /\ \A i \in 1..Len(Res.documents) : \E e \in store : e.doc = Res.documents[i]

\* C25: on a non-empty index whose hits all score below min_similarity,
\* similarity_search returns the empty list and raises nothing, and
\* retrieve returns a RetrievalResult with the query it was given, no
\* documents, no scores, the context "" and no sources.
C25_NothingRelevant ==
    (/\ Retrieved
     /\ lastRet.fault = "none"
     /\ lastRet.count > 0
     /\ \A i \in 1..Len(lastRet.hits) : lastRet.hits[i].score < lastRet.min_similarity) =>
        /\ lastRet.searched
        /\ lastRet.searchRaised = "none"
        /\ lastRet.found = <<>>
        /\ ~lastRet.raised
        /\ Res = [query |-> lastRet.query, documents |-> <<>>, scores |-> <<>>,
                  context |-> <<>>, sources |-> <<>>]
        /\ ~found_results(Res)

\* the backend answered hits for a question, each below the minimum
C25_Witness ==
    /\ Retrieved
    /\ lastRet.fault = "none"
    /\ lastRet.count > 0
    /\ Len(lastRet.hits) >= 2
    /\ lastRet.query # <<>>
    /\ \A i \in 1..Len(lastRet.hits) : lastRet.hits[i].score < lastRet.min_similarity
    /\ Res.documents = <<>>

\* C21: for a retrieval result without documents generate_answer returns
\* the fixed answer with no sources, does not ask the model, raises
\* nothing whatever the model would have done, and leaves
\* total_tokens_used and total_cost_usd as they were.
C21_NothingFound ==
    (llm.op = "generate_answer" /\ ~found_results(llm.asked)) =>
        /\ llm.response.answer = NothingFound
        /\ llm.response.sources = <<>>
        /\ ~llm.called
        /\ ~llm.raised
        /\ llm.chain.total_tokens_used = llm.before.total_tokens_used
        /\ llm.chain.total_cost_usd = llm.before.total_cost_usd

\* after an answer that cost tokens, a result without documents is
\* answered while the model would have raised
C21_Witness ==
    /\ llm.op = "generate_answer"
    /\ ~found_results(llm.asked)
    /\ llm.completion.error # "none"
    /\ llm.before.total_tokens_used > 0
    /\ llm.before.total_cost_usd > 0
    /\ llm.response.answer = NothingFound

\* C26: two chunks that differ in source or in text never give the same
\* string to the hash of _compute_doc_id, so add_documents skips a chunk as
\* already stored only when an entry of its source and text is stored.
C26_IdentityInjective ==
    (ident.op = "compute_doc_id" /\ ~SamePair(ident.a, ident.b)) =>
        /\ ident.id_a # ident.id_b
        /\ ~ident.skipped

\* C27: setup_rag_pipeline extracts and chunks the file before it opens,
\* resets or writes the index: when the extraction yields no usable page
\* the error surfaces, main returns 1, and the persisted index is as it
\* was, with --reset-db too.
C27_ExtractBeforeIndex ==
    (setup.op = "main" /\ pdf.raw_pages = <<>>) =>
        /\ setup.extraction.raised
        /\ setup.raised
        /\ setup.exit_code = 1
        /\ ~setup.opened
        /\ store = setup.store_before

\* a run with --reset-db on a file without usable pages, over an index
\* that holds entries
C27_Witness ==
    /\ setup.op = "main"
    /\ pdf.raw_pages = <<>>
    /\ setup.reset_db
    /\ setup.store_before # {}
    /\ setup.exit_code = 1
    /\ store = setup.store_before

====
